---- MODULE Spec2Model ----
(***************************************************************************)
(* Model of the prompt enhancer: the pattern catalog, the Ollama client    *)
(* (get_ollama_models, call_ollama), the strategy selector                 *)
(* (choose_enhancement_strategy), the enhancer (PromptEnhancer) and the    *)
(* two button handlers of app.main.                                        *)
(*                                                                         *)
(* A text is a sequence of fragments; the string it stands for is the      *)
(* concatenation of its fragments.  Fragments are cut so that every        *)
(* substring the code searches for, removes or splits on is a run of       *)
(* whole fragments.  Identifiers and model names are texts too.             *)
(***************************************************************************)
EXTENDS Integers, Sequences, FiniteSets

VARIABLES
    enhancement_history,  \* PromptEnhancer.enhancement_history
    critique,             \* st.session_state.critique
    enhanced_prompt,      \* st.session_state.enhanced_prompt
    llm_response,         \* st.session_state.llm_response
    clock,                \* the value datetime.now() returns next
    last                  \* the last operation: its arguments, HTTP exchanges and outcome

vars == <<enhancement_history, critique, enhanced_prompt, llm_response, clock, last>>

session == <<enhancement_history, critique, enhanced_prompt, llm_response>>

-----------------------------------------------------------------------------
(* Bounds *)

\* Number of operations in one session run.
MaxClock == 2

\* core.py:215, the word count above which the selector skips the model.
Threshold == 15

-----------------------------------------------------------------------------
(* str methods, on texts *)

Whitespace == {" ", "\n", "\t"}

RECURSIVE LStrip(_)
LStrip(s) ==
    IF s = <<>> THEN s
    ELSE IF Head(s) \in Whitespace THEN LStrip(Tail(s)) ELSE s

RECURSIVE RStrip(_)
RStrip(s) ==
    IF s = <<>> THEN s
    ELSE IF s[Len(s)] \in Whitespace THEN RStrip(SubSeq(s, 1, Len(s) - 1)) ELSE s

\* str.strip()
Strip(s) == RStrip(LStrip(s))

\* str.lower() of one fragment
LowerFragment(a) ==
    CASE a = "Q" -> "q"
      [] a = "AI" -> "ai"
      [] a = "REWRITE" -> "rewrite"
      [] a = "XML" -> "xml"
      [] a = "STRUCTURE" -> "structure"
      [] a = "ROLE" -> "role"
      [] a = "PROMPTING" -> "prompting"
      [] a = "[Ollama Error: " -> "[ollama error: "
      [] a = "[No response from Ollama]" -> "[no response from ollama]"
      [] a = "HTTPConnectionPool: Read timed out." -> "httpconnectionpool: read timed out."
      [] a = "HTTPConnectionPool: Max retries exceeded (Connection refused)" ->
             "httpconnectionpool: max retries exceeded (connection refused)"
      [] a = "500 Server Error: Internal Server Error for url" ->
             "500 server error: internal server error for url"
      [] a = "Expecting value: line 1 column 1 (char 0)" ->
             "expecting value: line 1 column 1 (char 0)"
      [] a = "'NoneType' object has no attribute 'strip'" ->
             "'nonetype' object has no attribute 'strip'"
      [] OTHER -> a

\* str.lower()
Lower(s) == [i \in 1..Len(s) |-> LowerFragment(s[i])]

\* sub in s
Contains(sub, s) ==
    \E i \in 0..(Len(s) - Len(sub)) : SubSeq(s, i + 1, i + Len(sub)) = sub

\* s.replace(old, new): left to right, occurrences do not overlap, one pass
RECURSIVE Replace(_, _, _)
Replace(s, old, new) ==
    IF Len(s) < Len(old) \/ old = <<>> THEN s
    ELSE IF SubSeq(s, 1, Len(old)) = old
         THEN new \o Replace(SubSeq(s, Len(old) + 1, Len(s)), old, new)
         ELSE <<Head(s)>> \o Replace(Tail(s), old, new)

\* length of the first whitespace-free run of s
RECURSIVE WordLen(_)
WordLen(s) ==
    IF s = <<>> \/ Head(s) \in Whitespace THEN 0 ELSE 1 + WordLen(Tail(s))

\* str.split(): the maximal whitespace-free runs, in order
RECURSIVE Split(_)
Split(s) ==
    LET t == LStrip(s)
        n == WordLen(t)
    IN  IF t = <<>> THEN <<>>
        ELSE <<SubSeq(t, 1, n)>> \o Split(SubSeq(t, n + 1, Len(t)))

\* "\n".join(lines)
RECURSIVE Join(_, _)
Join(sep, lines) ==
    IF lines = <<>> THEN <<>>
    ELSE IF Len(lines) = 1 THEN lines[1]
    ELSE lines[1] \o sep \o Join(sep, Tail(lines))

-----------------------------------------------------------------------------
(* The pattern catalog *)

Lit(t) == [kind |-> "lit", text |-> t]
Field(n) == [kind |-> "field", text |-> n]

ai_rewrite == <<"ai", "_", "rewrite">>
xml_structure == <<"xml", "_", "structure">>
chain_of_thought == <<"chain", "_", "of", "_", "thought">>
role_prompting == <<"role", "_", "prompting">>
multishot_examples == <<"multishot", "_", "examples">>

XmlStructureTemplate ==
    << Lit("<instructions>"), Lit("\n"), Field("original_prompt"), Lit("\n"),
       Lit("</instructions>"),
       Lit("\n\n<context>\nProvide any relevant background information that helps with understanding the task.\n</context>\n\n<examples>\n<example>\n<input>Sample input here</input>\n<output>Expected output format</output>\n</example>\n</examples>\n\n<formatting>\nPlease structure your response clearly and follow the examples provided.\n</formatting>") >>

ChainOfThoughtTemplate ==
    << Lit("<task>"), Lit("\n"), Field("original_prompt"), Lit("\n"), Lit("</task>"),
       Lit("\n\n"), Lit("<instructions>"),
       Lit("\nBefore providing your final answer, please think through this step-by-step inside <thinking> tags:\n1. Break down the problem\n2. Consider different approaches\n3. Work through the solution\n4. Verify your reasoning\n"),
       Lit("</instructions>"),
       Lit("\n\n<thinking>\n[Your step-by-step reasoning will go here]\n</thinking>\n\nPlease provide your response after showing your thinking process.") >>

RolePromptingTemplate ==
    << Lit("<role>"), Lit("\nYou are a world-class "), Field("persona"), Lit(" with "),
       Field("years_experience"), Lit(" years of experience in "), Field("domain"),
       Lit(". You are known for your "), Field("key_strengths"),
       Lit(" and have a reputation for "), Field("reputation_traits"), Lit(".\n"),
       Lit("</role>"), Lit("\n\n"), Lit("<task>"), Lit("\n"), Field("original_prompt"),
       Lit("\n"), Lit("</task>"), Lit("\n\n<approach>\nAs an expert "), Field("persona"),
       Lit(", please:\n1. Apply your specialized knowledge and experience\n2. Consider industry best practices and standards\n3. Provide insights that only an expert would know\n4. Structure your response professionally\n</approach>") >>

MultishotExamplesTemplate ==
    << Lit("<task>"), Lit("\n"), Field("original_prompt"), Lit("\n"), Lit("</task>"),
       Lit("\n\n<examples>\n<example_1>\n<input>"), Field("example_input_1"),
       Lit("</input>\n<output>"), Field("example_output_1"),
       Lit("</output>\n</example_1>\n\n<example_2>\n<input>"), Field("example_input_2"),
       Lit("</input>\n<output>"), Field("example_output_2"),
       Lit("</output>\n</example_2>\n</examples>\n\n"), Lit("<instructions>"),
       Lit("\nFollowing the pattern shown in the examples above, please process the actual task.\n"),
       Lit("</instructions>") >>

\* The dict, as its items in insertion order; template None is has_template FALSE.
ENHANCEMENT_PATTERNS ==
    << [description |-> "Uses an AI to critique and rewrite the prompt from scratch for maximum effectiveness.",
        has_template |-> FALSE, key |-> ai_rewrite, name |-> "AI-Driven Rewrite",
        template |-> <<>>],
       [description |-> "Uses XML tags for clear prompt organization (Anthropic's signature technique)",
        has_template |-> TRUE, key |-> xml_structure, name |-> "XML Structure Enhancement",
        template |-> XmlStructureTemplate],
       [description |-> "Encourages step-by-step reasoning with structured thinking",
        has_template |-> TRUE, key |-> chain_of_thought, name |-> "Chain of Thought with XML",
        template |-> ChainOfThoughtTemplate],
       [description |-> "Assigns specific expert roles for domain expertise",
        has_template |-> TRUE, key |-> role_prompting, name |-> "Role-Based Prompting",
        template |-> RolePromptingTemplate],
       [description |-> "Provides multiple high-quality examples with consistent formatting",
        has_template |-> TRUE, key |-> multishot_examples, name |-> "Multishot Example Enhancement",
        template |-> MultishotExamplesTemplate] >>

\* ENHANCEMENT_PATTERNS.keys(), in iteration order
PatternKeys == [i \in 1..Len(ENHANCEMENT_PATTERNS) |-> ENHANCEMENT_PATTERNS[i].key]

\* enhancement_type in ENHANCEMENT_PATTERNS
InCatalog(k) == \E i \in 1..Len(PatternKeys) : PatternKeys[i] = k

\* ENHANCEMENT_PATTERNS[k]
Pattern(k) ==
    ENHANCEMENT_PATTERNS[CHOOSE i \in 1..Len(PatternKeys) : PatternKeys[i] = k]

-----------------------------------------------------------------------------
(* Keyword arguments: a sequence of [name, value], in the caller's order *)

KwNames(kw) == {kw[i].name : i \in 1..Len(kw)}

\* kwargs.get(n, default)
KwGet(kw, n, default) ==
    IF n \in KwNames(kw)
    THEN kw[CHOOSE i \in 1..Len(kw) : kw[i].name = n].value
    ELSE default

Returned(v) == [raised |-> "none", value |-> v]
Raised(e) == [raised |-> e, value |-> <<>>]

\* template.format(original_prompt=prompt, **kwargs): a keyword given twice is a
\* TypeError of the call, a field no keyword supplies is a KeyError; the values
\* are inserted as they are, never parsed again.
RECURSIVE Substitute(_, _)
Substitute(t, kw) ==
    IF t = <<>> THEN <<>>
    ELSE (IF Head(t).kind = "field" THEN KwGet(kw, Head(t).text, <<>>) ELSE <<Head(t).text>>)
         \o Substitute(Tail(t), kw)

\* template.format(original_prompt=prompt.strip(), **kwargs)
FormatStrippedPrompt(t, prompt, kwargs) ==
    LET kw == <<[name |-> "original_prompt", value |-> Strip(prompt)]>> \o kwargs
    IN  IF "original_prompt" \in KwNames(kwargs) THEN Raised("TypeError")
        ELSE IF \E i \in 1..Len(t) : t[i].kind = "field" /\ t[i].text \notin KwNames(kw)
             THEN Raised("KeyError")
             ELSE Returned(Substitute(t, kw))

Format(t, prompt, kwargs) ==
    LET kw == <<[name |-> "original_prompt", value |-> prompt]>> \o kwargs
    IN  IF "original_prompt" \in KwNames(kwargs) THEN Raised("TypeError")
        ELSE IF \E i \in 1..Len(t) : t[i].kind = "field" /\ t[i].text \notin KwNames(kw)
             THEN Raised("KeyError")
             ELSE Returned(Substitute(t, kw))

-----------------------------------------------------------------------------
(* The Model Client *)

\* The records kept in the state are written with their fields in the order TLC
\* keeps them in (that of their first mention in the module).
\* What one HTTP request to the server can end in.  For a listing (GET /api/tags)
\* models is the JSON list; for a generation (POST /api/generate) text is the
\* "response" string.
Outcome(k, t, ms) == [kind |-> k, text |-> t, models |-> ms]

\* The exceptions of requests.exceptions.RequestException: Timeout, ConnectionError,
\* HTTPError (raise_for_status) and JSONDecodeError (response.json(), requests >= 2.27).
RequestExceptions == {"Timeout", "ConnectionError", "HTTPError", "JSONDecodeError"}

\* str(e) of the exception an outcome raises
ExceptionMessage(e) ==
    CASE e = "Timeout" -> "HTTPConnectionPool: Read timed out."
      [] e = "ConnectionError" -> "HTTPConnectionPool: Max retries exceeded (Connection refused)"
      [] e = "HTTPError" -> "500 Server Error: Internal Server Error for url"
      [] e = "JSONDecodeError" -> "Expecting value: line 1 column 1 (char 0)"
      [] e = "AttributeError" -> "'NoneType' object has no attribute 'strip'"
      [] OTHER -> "object is not iterable"

\* requests.get/post(...), raise_for_status(), response.json(): the exception the
\* request itself ends in, "none" when it yields parsed JSON.
RequestRaises(o) ==
    CASE o.kind = "timeout" -> "Timeout"
      [] o.kind = "refused" -> "ConnectionError"
      [] o.kind = "http_error" -> "HTTPError"
      [] o.kind = "bad_json" -> "JSONDecodeError"
      [] OTHER -> "none"

\* Python order of the model names a listing can hold ("" for a missing name).
NameOrder == << <<>>, <<"codellama:7b">>, <<"llama3:latest">>, <<"mistral:latest">> >>

NameRank(n) == CHOOSE i \in 1..Len(NameOrder) : NameOrder[i] = n

\* sorted(names)
RECURSIVE Sorted(_)
Sorted(names) ==
    IF names = <<>> THEN <<>>
    ELSE LET i == CHOOSE j \in 1..Len(names) :
                      \A k \in 1..Len(names) :
                          NameRank(names[j]) < NameRank(names[k])
                          \/ (NameRank(names[j]) = NameRank(names[k]) /\ j <= k)
             rest == [k \in 1..(Len(names) - 1) |-> IF k < i THEN names[k] ELSE names[k + 1]]
         IN  <<names[i]>> \o Sorted(rest)

\* The try body of get_ollama_models: a JSON value that is no object, a null
\* "models" and a list entry that is no object raise outside RequestException.
ListingBody(o) ==
    IF RequestRaises(o) # "none" THEN Raised(RequestRaises(o))
    ELSE IF o.kind = "not_object" THEN Raised("AttributeError")
    ELSE IF o.kind = "models_null" THEN Raised("TypeError")
    ELSE IF o.kind = "entry_not_object" THEN Raised("AttributeError")
    ELSE LET models == Sorted([i \in 1..Len(o.models) |->
                                  IF o.models[i].has_name THEN o.models[i].name ELSE <<>>])
         IN  IF models = <<>> THEN Returned(<< <<"llama3:latest">> >>)
             ELSE Returned(models)

\* get_ollama_models(): except requests.exceptions.RequestException: return []
get_ollama_models(o) ==
    LET r == ListingBody(o)
    IN  IF r.raised \in RequestExceptions THEN Returned(<<>>) ELSE r

\* The try body of call_ollama.
GenerateBody(o) ==
    IF RequestRaises(o) # "none" THEN Raised(RequestRaises(o))
    ELSE IF o.kind = "not_object" THEN Raised("AttributeError")
    ELSE IF o.kind = "no_key" THEN Returned(Strip(<<"[No response from Ollama]">>))
    ELSE IF o.kind = "non_text" THEN Raised("AttributeError")
    ELSE Returned(Strip(o.text))

\* except requests.exceptions.RequestException instead of except Exception
CallOllamaCatchingRequestErrors(prompt, model, o) ==
    LET r == GenerateBody(o)
    IN  IF r.raised \in RequestExceptions
        THEN Returned(<<"[Ollama Error: ", ExceptionMessage(r.raised), "]">>)
        ELSE r

\* call_ollama(prompt, model): except Exception as e: return f"[Ollama Error: {e}]"
call_ollama(prompt, model, o) ==
    LET r == GenerateBody(o)
    IN  IF r.raised # "none"
        THEN Returned(<<"[Ollama Error: ", ExceptionMessage(r.raised), "]">>)
        ELSE r

\* One call of call_ollama as the caller sees it: what was sent and what came back.
Exchange(prompt, model, o) ==
    LET r == call_ollama(prompt, model, o)
    IN  [raised |-> r.raised, prompt |-> prompt, model |-> model, outcome |-> o,
         returned |-> r.value]

-----------------------------------------------------------------------------
(* rewrite_prompt_with_ai *)

\* The instruction texts are the source's, with its backquotes written as
\* apostrophes (a TLA+ string cannot hold a backquote).

CritiqueInstruction(prompt) ==
    <<"<task>\nYou are a world-class prompt engineering expert. Your task is to analyze and critique the following user-provided prompt.\nIdentify its weaknesses based on criteria like clarity, specificity, context, constraints, and desired output format.\n\n**User Prompt:**\n'">>
    \o prompt
    \o <<"'\n\nProvide your critique in a <critique> XML tag. Be specific and constructive.\n</task>">>

RewriteInstruction(prompt, crit) ==
    <<"<task>\nYou are a world-class prompt engineering expert. You will be given an original prompt and a critique of that prompt.\nYour task is to rewrite the original prompt to be a much more effective, \"best-in-class\" prompt, addressing all the points in the critique.\nThe new prompt should be significantly more detailed and structured, incorporating principles like XML tagging, clear instructions, context, and examples where appropriate.\n\n**Original Prompt:**\n'">>
    \o prompt
    \o <<"'\n\n**Critique:**\n">>
    \o crit
    \o <<"\n\nNow, provide the new, rewritten prompt inside a <rewritten_prompt> XML tag. Output only the content for the new prompt, without the XML tag itself.\n</task>">>

CritiqueOpen == <<"<", "critique", ">">>
CritiqueClose == <<"<", "/", "critique", ">">>
RewrittenOpen == <<"<", "rewritten_prompt", ">">>
RewrittenClose == <<"<", "/", "rewritten_prompt", ">">>

\* .replace(open, "").replace(close, "") without the .strip()
CleanUpUnstripped(s, open, close) == Replace(Replace(s, open, <<>>), close, <<>>)

\* .replace(open, "").replace(close, "").strip()
CleanUp(s, open, close) == Strip(Replace(Replace(s, open, <<>>), close, <<>>))

\* rewrite_prompt_with_ai(prompt, model), o1 and o2 the outcomes of its two requests.
\* An exception of call_ollama would leave the function at that call.
rewrite_prompt_with_ai(prompt, model, o1, o2) ==
    LET c1 == Exchange(CritiqueInstruction(prompt), model, o1)
        c2 == Exchange(RewriteInstruction(prompt, c1.returned), model, o2)
    IN  IF c1.raised # "none"
        THEN [calls |-> <<c1>>, critique |-> <<>>, raised |-> c1.raised, rewritten |-> <<>>]
        ELSE IF c2.raised # "none"
        THEN [calls |-> <<c1, c2>>, critique |-> <<>>, raised |-> c2.raised, rewritten |-> <<>>]
        ELSE [calls |-> <<c1, c2>>,
              critique |-> CleanUp(c1.returned, CritiqueOpen, CritiqueClose),
              raised |-> "none",
              rewritten |-> CleanUp(c2.returned, RewrittenOpen, RewrittenClose)]

-----------------------------------------------------------------------------
(* choose_enhancement_strategy *)

\* "\n".join(f"- **{key}**: {details['name']} - {details['description']}" ...)
StrategyDescriptions ==
    Join(<<"\n">>,
         [i \in 1..Len(ENHANCEMENT_PATTERNS) |->
             <<"- **">> \o ENHANCEMENT_PATTERNS[i].key
             \o <<"**: ", ENHANCEMENT_PATTERNS[i].name, " - ",
                  ENHANCEMENT_PATTERNS[i].description>>])

MetaPrompt(prompt) ==
    <<"<task>\nYou are an expert in prompt engineering. Your task is to analyze the following user prompt and choose the single best enhancement strategy from the list provided.\n\n**User Prompt:**\n\"">>
    \o prompt
    \o <<"\"\n\n**Available Enhancement Strategies:**\n">>
    \o StrategyDescriptions
    \o <<"\n\n**Instructions:**\n1. Read the user prompt carefully.\n2. For simple, short prompts, a template-based approach is fine.\n3. For more complex or vague prompts, 'ai_rewrite' is usually the best choice.\n4. Respond with ONLY the identifier of your chosen strategy (e.g., xml_structure, ai_rewrite). Do not add any other text or explanation.\n</task>\n\nChosen strategy identifier:">>

\* the loop without its return: the last key found wins
LastKeyIn(raw) ==
    LET hits == {i \in 1..Len(PatternKeys) : Contains(PatternKeys[i], raw)}
    IN  IF hits = {} THEN xml_structure
        ELSE PatternKeys[CHOOSE i \in hits : \A j \in hits : i >= j]

\* for key in ENHANCEMENT_PATTERNS.keys(): if key in raw: return key
\* return "xml_structure"
FirstKeyIn(raw) ==
    LET hits == {i \in 1..Len(PatternKeys) : Contains(PatternKeys[i], raw)}
    IN  IF hits = {} THEN xml_structure
        ELSE PatternKeys[CHOOSE i \in hits : \A j \in hits : i <= j]

\* len(prompt.split()) > 16
IsLongOffByOne(prompt) == Len(Split(prompt)) > Threshold + 1

\* len(prompt.split()) > 15
IsLong(prompt) == Len(Split(prompt)) > Threshold

\* choose_enhancement_strategy(prompt, model), o the outcome of its request
choose_enhancement_strategy(prompt, model, o) ==
    IF IsLong(prompt)
    THEN [calls |-> <<>>, raised |-> "none", value |-> ai_rewrite]
    ELSE LET c == Exchange(MetaPrompt(prompt), model, o)
         IN  IF c.raised # "none"
             THEN [calls |-> <<c>>, raised |-> c.raised, value |-> <<>>]
             ELSE [calls |-> <<c>>, raised |-> "none",
                   value |-> FirstKeyIn(Lower(Strip(c.returned)))]

-----------------------------------------------------------------------------
(* PromptEnhancer *)

\* What enhance_prompt leaves behind: how it ended, the requests it made, and the
\* history and critique after it.
Ended(e, v, cs, h, c) ==
    [calls |-> cs, critique |-> c, history |-> h, raised |-> e, value |-> v]

\* return prompt.strip()
ReturnStrippedPrompt(history, crit, prompt) ==
    [calls |-> <<>>, critique |-> crit, history |-> history, raised |-> "none",
     value |-> Strip(prompt)]

\* if enhancement_type not in ENHANCEMENT_PATTERNS: return prompt
ReturnPrompt(history, crit, prompt) == Ended("none", prompt, <<>>, history, crit)

\* the ai_rewrite branch
RewriteBranch(history, crit, prompt, kwargs, o1, o2) ==
    LET r == rewrite_prompt_with_ai(prompt, KwGet(kwargs, "model", <<"llama3">>), o1, o2)
    IN  IF r.raised # "none" THEN Ended(r.raised, <<>>, r.calls, history, crit)
        ELSE Ended("none", r.rewritten, r.calls, history, r.critique)

\* self.enhancement_history.insert(0, {...})
InsertRecordFirst(history, rec) == <<rec>> \o history

\* self.enhancement_history.append({...})
AppendRecord(history, rec) == Append(history, rec)

\* the template branch
TemplateBranch(history, crit, now, prompt, enhancement_type, kwargs) ==
    LET enhanced == Format(Pattern(enhancement_type).template, prompt, kwargs)
    IN  IF enhanced.raised # "none" THEN Ended(enhanced.raised, <<>>, <<>>, history, crit)
        ELSE Ended("none", enhanced.value, <<>>,
                   AppendRecord(history,
                                [enhanced |-> enhanced.value, original |-> prompt,
                                 parameters |-> kwargs, timestamp |-> now,
                                 type |-> enhancement_type]),
                   crit)

\* PromptEnhancer.enhance_prompt(prompt, enhancement_type, **kwargs), called when
\* the history is history, the critique is crit and the time is now; o1 and o2
\* are the outcomes of the requests the ai_rewrite branch makes.
enhance_prompt(history, crit, now, prompt, enhancement_type, kwargs, o1, o2) ==
    IF ~InCatalog(enhancement_type) THEN ReturnPrompt(history, crit, prompt)
    ELSE IF enhancement_type = ai_rewrite
    THEN RewriteBranch(history, crit, prompt, kwargs, o1, o2)
    ELSE TemplateBranch(history, crit, now, prompt, enhancement_type, kwargs)

-----------------------------------------------------------------------------
(* The inputs *)

\* n words, one space between two
Words(n) == [i \in 1..(2 * n - 1) |-> IF i % 2 = 1 THEN "q" ELSE " "]

\* n words, two spaces between two
WideWords(n) == [i \in 1..(3 * n - 2) |-> IF i % 3 = 1 THEN "q" ELSE " "]

Prompts ==
    { <<>>, <<"q">>, <<" ", "Q", " ", "{", "persona", "}", "\n">>,
      Words(Threshold), WideWords(Threshold), Words(Threshold + 1),
      <<"\n">> \o Words(Threshold + 2) }

\* The prompts typed into the text area.
SessionPrompts ==
    { <<>>, <<"q">>, <<" ", "Q", " ", "{", "persona", "}", "\n">>, Words(Threshold + 1) }

\* The prompts handed to enhance_prompt directly.
EnhancerPrompts == { <<"q">>, <<" ", "Q", " ", "{", "persona", "}", "\n">> }

Models == { <<"llama3">>, <<"mistral:latest">> }

\* The "response" texts of the server.
Replies ==
    { <<>>,
      <<"q">>,
      xml_structure,
      <<" ", "ROLE", "_", "PROMPTING", "\n">>,
      <<"q", " ">> \o chain_of_thought \o <<"q">>,
      <<"q">> \o multishot_examples \o <<" ">> \o ai_rewrite,
      <<"xml", "_", "q", "structure">>,
      <<"\n">> \o CritiqueOpen \o <<" ", "q", " ", "Q", "\n">> \o CritiqueClose \o <<" ">>,
      <<" ">> \o RewrittenOpen \o <<"q", " ">> \o RewrittenClose \o <<"q", "\n">>,
      <<"<">> \o RewrittenOpen \o <<"rewritten_prompt", ">", " ", "q">> }

Failure(k) == Outcome(k, <<>>, <<>>)
Ok(t) == Outcome("ok", t, <<>>)

\* The outcomes of POST /api/generate.
GenerateOutcomes ==
    {Failure(k) : k \in {"timeout", "refused", "http_error", "bad_json",
                         "not_object", "no_key", "non_text"}}
    \cup {Ok(t) : t \in Replies}

\* The outcomes of POST /api/generate tried in a session.
SessionOutcomes ==
    { Failure("timeout"),
      Ok(<<" ", "ROLE", "_", "PROMPTING", "\n">>),
      Ok(<<"\n">> \o CritiqueOpen \o <<" ", "<">> \o CritiqueOpen
         \o <<"critique", ">", "q", "\n">> \o CritiqueClose
         \o RewrittenOpen \o <<"Q", " ">> \o RewrittenClose \o <<"\n">>) }

Named(n) == [name |-> n, has_name |-> TRUE]
Unnamed == [name |-> <<>>, has_name |-> FALSE]

ModelEntries == {Named(NameOrder[i]) : i \in 2..Len(NameOrder)} \cup {Unnamed}

\* Longest model list of a listing.
MaxModels == 2

ModelLists == UNION {[1..n -> ModelEntries] : n \in 0..MaxModels}

\* The outcomes of GET /api/tags.
ListingOutcomes ==
    {Failure(k) : k \in {"timeout", "refused", "http_error", "bad_json",
                         "not_object", "models_null", "entry_not_object"}}
    \cup {Outcome("ok", <<>>, ms) : ms \in ModelLists}

\* The outcomes of GET /api/tags tried in a session.
SessionListings ==
    { Failure("refused"), Failure("models_null"),
      Outcome("ok", <<>>, <<Named(<<"mistral:latest">>), Named(<<"llama3:latest">>)>>) }

Identifiers == {PatternKeys[i] : i \in 1..Len(PatternKeys)} \cup { <<"XML", "_", "STRUCTURE">> }

Kw(n, v) == [name |-> n, value |-> v]

RoleKwargs ==
    << Kw("persona", <<"q">>), Kw("years_experience", <<"q">>), Kw("domain", <<"q">>),
       Kw("key_strengths", <<"q">>), Kw("reputation_traits", <<"q">>) >>

ExampleKwargs ==
    << Kw("example_input_1", <<"q">>), Kw("example_output_1", <<"Q">>),
       Kw("example_input_2", <<"q">>), Kw("example_output_2", <<"Q">>) >>

KwargsChoices ==
    { <<>>,
      <<Kw("model", <<"mistral:latest">>)>> \o RoleKwargs \o ExampleKwargs,
      <<Kw("original_prompt", <<"q">>)>> }

NoOutcome == Outcome("none", <<>>, <<>>)

-----------------------------------------------------------------------------
(* The operations *)

\* The record of one operation.
Op(name, stage, prompt, id, kwargs, model, listing, calls, raised, value, models) ==
    [value |-> value, raised |-> raised, prompt |-> prompt, kwargs |-> kwargs,
     models |-> models, model |-> model, calls |-> calls, stage |-> stage, id |-> id,
     listing |-> listing, op |-> name]

Init ==
    /\ enhancement_history = <<>>
    /\ critique = <<>>
    /\ enhanced_prompt = <<>>
    /\ llm_response = <<>>
    /\ clock = 0
    /\ last = Op("init", "done", <<>>, <<>>, <<>>, <<>>, NoOutcome, <<>>, "none", <<>>, <<>>)

\* get_ollama_models()
GetOllamaModels ==
    \E lo \in ListingOutcomes :
        \E r \in {get_ollama_models(lo)} :
            /\ last' = Op("get_ollama_models", "done", <<>>, <<>>, <<>>, <<>>, lo, <<>>,
                          r.raised, <<>>, r.value)
            /\ UNCHANGED <<session, clock>>

\* call_ollama(prompt, model)
CallOllama ==
    \E prompt \in Prompts, model \in Models, o \in GenerateOutcomes :
        \E c \in {Exchange(prompt, model, o)} :
            /\ last' = Op("call_ollama", "done", prompt, <<>>, <<>>, model, NoOutcome, <<c>>,
                          c.raised, c.returned, <<>>)
            /\ UNCHANGED <<session, clock>>

\* choose_enhancement_strategy(prompt, model)
ChooseStrategy ==
    \E prompt \in Prompts, model \in Models, o \in GenerateOutcomes :
        \E r \in {choose_enhancement_strategy(prompt, model, o)} :
            /\ last' = Op("choose", "done", prompt, <<>>, <<>>, model, NoOutcome, r.calls,
                          r.raised, r.value, <<>>)
            /\ UNCHANGED <<session, clock>>

\* rewrite_prompt_with_ai(prompt, model)
RewritePromptWithAi ==
    \E prompt \in EnhancerPrompts, model \in {<<"llama3">>},
       o1 \in GenerateOutcomes, o2 \in GenerateOutcomes :
        \E r \in {rewrite_prompt_with_ai(prompt, model, o1, o2)} :
            /\ last' = Op("rewrite_prompt_with_ai", "done", prompt, <<>>, <<>>, model,
                          NoOutcome, r.calls, r.raised, r.rewritten, <<r.critique>>)
            /\ UNCHANGED <<session, clock>>

\* The client, the selector and the rewrite, which keep no state of their own.
ClientNext == GetOllamaModels \/ CallOllama \/ ChooseStrategy \/ RewritePromptWithAi

ClientSpec == Init /\ [][ClientNext]_vars

\* The outcomes to try for a request: none for a request that is never sent.
OutcomesIf(sent) == IF sent THEN SessionOutcomes ELSE {NoOutcome}

\* choose_enhancement_strategy(prompt, model), called during a session
Choose ==
    /\ clock < MaxClock
    /\ \E prompt \in SessionPrompts, model \in Models :
       \E o \in OutcomesIf(~IsLong(prompt)) :
       \E r \in {choose_enhancement_strategy(prompt, model, o)} :
            /\ last' = Op("choose", "done", prompt, <<>>, <<>>, model, NoOutcome, r.calls,
                          r.raised, r.value, <<>>)
            /\ clock' = clock + 1
            /\ UNCHANGED session

\* st.session_state.enhancer.enhance_prompt(prompt, enhancement_type, **kwargs)
EnhancePrompt ==
    /\ clock < MaxClock
    /\ \E prompt \in EnhancerPrompts, enhancement_type \in Identifiers,
          kwargs \in KwargsChoices :
       \E o1 \in OutcomesIf(enhancement_type = ai_rewrite),
          o2 \in OutcomesIf(enhancement_type = ai_rewrite) :
       \E r \in {enhance_prompt(enhancement_history, critique, clock, prompt,
                                enhancement_type, kwargs, o1, o2)} :
            /\ enhancement_history' = r.history
            /\ critique' = r.critique
            /\ last' = Op("enhance_prompt", "done", prompt, enhancement_type, kwargs, <<>>,
                          NoOutcome, r.calls, r.raised, r.value, <<>>)
            /\ clock' = clock + 1
            /\ UNCHANGED <<enhanced_prompt, llm_response>>

\* The sidebar of main(): the models listed and the one selected, the pick-th of
\* the selectbox, or the text input's default when none is listed.
Sidebar(lo, pick) ==
    LET r == get_ollama_models(lo)
    IN  [models |-> r.value, raised |-> r.raised,
         selected |-> IF r.raised # "none" THEN <<>>
                      ELSE IF r.value # <<>> THEN r.value[pick] ELSE <<"llama3">>]

\* The entries the selectbox offers (one for the text input).
Picks(lo) ==
    LET r == get_ollama_models(lo)
    IN  IF r.raised = "none" /\ r.value # <<>> THEN 1..Len(r.value) ELSE {1}

\* The enhance branch of main(), from the sidebar's selected model on.
EnhanceClicked(user_prompt, lo, side) ==
    IF user_prompt = <<>>
    THEN /\ last' = Op("enhance_button", "warning", user_prompt, <<>>, <<>>,
                       side.selected, lo, <<>>, "none", <<>>, side.models)
         /\ UNCHANGED session
    ELSE \E o1 \in OutcomesIf(~IsLong(user_prompt)) :
         \E chosen \in {choose_enhancement_strategy(user_prompt, side.selected, o1)} :
            IF chosen.raised # "none"
            THEN /\ last' = Op("enhance_button", "choose", user_prompt, <<>>, <<>>,
                               side.selected, lo, chosen.calls, chosen.raised, <<>>,
                               side.models)
                 /\ llm_response' = <<>>
                 /\ critique' = <<>>
                 /\ UNCHANGED <<enhancement_history, enhanced_prompt>>
            ELSE \E o2 \in OutcomesIf(chosen.value = ai_rewrite),
                    o3 \in OutcomesIf(chosen.value = ai_rewrite) :
                 \E r \in {enhance_prompt(enhancement_history, <<>>, clock, user_prompt,
                                          chosen.value, <<Kw("model", side.selected)>>,
                                          o2, o3)} :
                    /\ last' = Op("enhance_button",
                                  IF r.raised # "none" THEN "enhance" ELSE "done",
                                  user_prompt, chosen.value, <<Kw("model", side.selected)>>,
                                  side.selected, lo, chosen.calls \o r.calls,
                                  r.raised, r.value, side.models)
                    /\ llm_response' = <<>>
                    /\ critique' = r.critique
                    /\ enhancement_history' = r.history
                    /\ enhanced_prompt' = IF r.raised # "none" THEN enhanced_prompt
                                          ELSE r.value

\* One run of main() with the enhance button pressed.
EnhanceButton ==
    /\ clock < MaxClock
    /\ clock' = clock + 1
    /\ \E user_prompt \in SessionPrompts, lo \in SessionListings :
       \E pick \in Picks(lo) :
       \E side \in {Sidebar(lo, pick)} :
            IF side.raised # "none"
            THEN /\ last' = Op("enhance_button", "sidebar", user_prompt, <<>>, <<>>, <<>>,
                               lo, <<>>, side.raised, <<>>, <<>>)
                 /\ UNCHANGED session
            ELSE EnhanceClicked(user_prompt, lo, side)

\* One run of main() with the generate button pressed; the button is drawn only
\* while there is an enhanced prompt.
GenerateButton ==
    /\ clock < MaxClock
    /\ clock' = clock + 1
    /\ enhanced_prompt # <<>>
    /\ UNCHANGED <<enhancement_history, critique, enhanced_prompt>>
    /\ \E lo \in SessionListings :
       \E pick \in Picks(lo) :
       \E side \in {Sidebar(lo, pick)} :
            IF side.raised # "none"
            THEN /\ last' = Op("generate_button", "sidebar", <<>>, <<>>, <<>>, <<>>,
                               lo, <<>>, side.raised, <<>>, <<>>)
                 /\ UNCHANGED llm_response
            ELSE \E o \in SessionOutcomes :
                 \E c \in {Exchange(enhanced_prompt, side.selected, o)} :
                    /\ last' = Op("generate_button",
                                  IF c.raised # "none" THEN "generate" ELSE "done",
                                  enhanced_prompt, <<>>, <<>>, side.selected, lo, <<c>>,
                                  c.raised, c.returned, side.models)
                    /\ llm_response' = IF c.raised # "none" THEN llm_response
                                       ELSE c.returned

Next == Choose \/ EnhancePrompt \/ EnhanceButton \/ GenerateButton

Spec == Init /\ [][Next]_vars

-----------------------------------------------------------------------------
(* What the claims speak of, stated apart from the operators above *)

CatalogOrder ==
    <<ai_rewrite, xml_structure, chain_of_thought, role_prompting, multishot_examples>>

CatalogIds == {CatalogOrder[i] : i \in 1..Len(CatalogOrder)}

TemplatedIds == CatalogIds \ {ai_rewrite}

\* sub occurs in s at position i
OccursAt(sub, s, i) ==
    /\ i + Len(sub) - 1 <= Len(s)
    /\ \A j \in 1..Len(sub) : s[i + j - 1] = sub[j]

\* s contains sub verbatim
HasPart(sub, s) == \E i \in 1..(Len(s) + 1) : OccursAt(sub, s, i)

IsPrefix(a, b) == Len(a) <= Len(b) /\ \A i \in 1..Len(a) : b[i] = a[i]

\* the elements of s at the positions in keep, in order
Kept(s, keep) ==
    [k \in 1..Cardinality(keep) |->
        s[CHOOSE j \in keep : Cardinality({x \in keep : x <= j}) = k]]

\* s with every occurrence of tag taken out
WithoutTag(s, tag) ==
    LET starts == {i \in 1..Len(s) : OccursAt(tag, s, i)}
    IN  Kept(s, {j \in 1..Len(s) : \A i \in starts : j < i \/ j >= i + Len(tag)})

\* t is s without its leading and trailing whitespace
IsTrimOf(t, s) ==
    \E a \in 1..(Len(s) + 1), b \in 0..Len(s) :
        /\ t = [k \in 1..(b - a + 1) |-> s[a + k - 1]]
        /\ \A i \in 1..Len(s) : (i < a \/ i > b) => s[i] \in {" ", "\n", "\t"}
        /\ t # <<>> => t[1] \notin {" ", "\n", "\t"} /\ t[Len(t)] \notin {" ", "\n", "\t"}

\* the number of words of s
WordCount(s) ==
    Cardinality({i \in 1..Len(s) :
                    /\ s[i] \notin {" ", "\n", "\t"}
                    /\ (i = 1 \/ s[i - 1] \in {" ", "\n", "\t"})})

\* t is an error string of generate
IsErrorText(t) ==
    \/ t = <<"[No response from Ollama]">>
    \/ Len(t) = 3 /\ t[1] = "[Ollama Error: " /\ t[3] = "]"

\* what the server answered in an exchange: its response text, or the error string
ReplyOf(c) == IF c.outcome.kind = "ok" THEN c.outcome.text ELSE c.returned

\* the placeholders of a pattern's template other than original_prompt
Placeholders(id) ==
    CASE id = role_prompting ->
             {"persona", "years_experience", "domain", "key_strengths", "reputation_traits"}
      [] id = multishot_examples ->
             {"example_input_1", "example_output_1", "example_input_2", "example_output_2"}
      [] OTHER -> {}

\* the fixed structural tokens of a pattern's template
StructuralTokens(id) ==
    CASE id = xml_structure -> {"<instructions>", "</instructions>"}
      [] id = chain_of_thought -> {"<task>", "</task>", "<instructions>", "</instructions>"}
      [] id = role_prompting -> {"<role>", "</role>", "<task>", "</task>"}
      [] id = multishot_examples -> {"<task>", "</task>", "<instructions>", "</instructions>"}
      [] OTHER -> {}

HasTokens(id, s) == \A t \in StructuralTokens(id) : \E i \in 1..Len(s) : s[i] = t

ParamNames(kw) == {kw[i].name : i \in 1..Len(kw)}

EnhanceCalled == last.op = "enhance_prompt"

\* s without its leading and trailing whitespace
Trimmed(s) ==
    CHOOSE t \in {[k \in 1..(b - a + 1) |-> s[a + k - 1]] :
                     a \in 1..(Len(s) + 1), b \in 0..Len(s)} : IsTrimOf(t, s)

\* the name a listed model entry goes by
ListedName(entry) == IF entry.has_name THEN entry.name ELSE <<>>

-----------------------------------------------------------------------------
(* The claims *)

\* C1: whatever the model replies, a press of the enhance button that gets as
\* far as choosing a strategy ends without an exception and with the enhanced
\* prompt stored for display.
C1_ButtonNeverRaises ==
    (last.op = "enhance_button" /\ last.stage \notin {"sidebar", "warning"})
        => /\ last.raised = "none"
           /\ last.stage = "done"
           /\ enhanced_prompt = last.value

\* C2: every enhance call with a catalog identifier that returns a result,
\* template or AI rewrite, leaves a record of itself at the end of the history.
C2_EveryEnhancementRecorded ==
    (EnhanceCalled /\ last.id \in CatalogIds /\ last.raised = "none")
        => /\ enhancement_history # <<>>
           /\ LET rec == enhancement_history[Len(enhancement_history)]
              IN  /\ rec.original = last.prompt
                  /\ rec.enhanced = last.value
                  /\ rec.type = last.id
                  /\ rec.parameters = last.kwargs

\* C3: enhance with an identifier outside the catalog returns the prompt as it
\* is, raises nothing, sends no request and leaves history and critique alone.
C3_UnknownIdIsNoOp ==
    [][(last'.op = "enhance_prompt" /\ last'.id \notin CatalogIds)
           => /\ last'.value = last'.prompt
              /\ last'.raised = "none"
              /\ last'.calls = <<>>
              /\ enhancement_history' = enhancement_history
              /\ critique' = critique]_vars

C3_Witness ==
    /\ EnhanceCalled
    /\ last.id \notin CatalogIds
    /\ last.prompt[1] = " "
    /\ enhancement_history # <<>>

\* C4 as stated: for every templated pattern, enhance(p, id) with no extra
\* parameters returns a string holding p verbatim and the structural tokens.
C4_EveryTemplateWithoutExtras ==
    (EnhanceCalled /\ last.id \in TemplatedIds /\ last.kwargs = <<>>)
        => /\ last.raised = "none"
           /\ HasPart(last.prompt, last.value)
           /\ HasTokens(last.id, last.value)

\* C4 amended: for every templated pattern, enhance returns a string holding p
\* verbatim and the template's structural tokens when the extra parameters
\* supply every other placeholder and do not name original_prompt; otherwise it
\* raises a usage error.
C4_TemplateWithPlaceholdersSupplied ==
    (EnhanceCalled /\ last.id \in TemplatedIds)
        => IF /\ Placeholders(last.id) \subseteq ParamNames(last.kwargs)
              /\ "original_prompt" \notin ParamNames(last.kwargs)
           THEN /\ last.raised = "none"
                /\ HasPart(last.prompt, last.value)
                /\ HasTokens(last.id, last.value)
                /\ last.id = xml_structure => HasPart(<<"<instructions>">>, last.value)
           ELSE last.raised \in {"KeyError", "TypeError"}

C4_Witness ==
    /\ EnhanceCalled
    /\ last.id = role_prompting
    /\ last.raised = "none"
    /\ last.prompt[1] = " "

\* C5: for a prompt of at most 15 words, choose returns the first identifier, in
\* the catalog's order, that occurs in the trimmed, lower-cased reply, and
\* xml_structure when none occurs; the result is a key of the catalog.
C5_FirstCatalogMatch ==
    (last.op = "choose" /\ WordCount(last.prompt) <= Threshold)
        => /\ PatternKeys = CatalogOrder
           /\ last.raised = "none"
           /\ Len(last.calls) = 1
           /\ last.value \in CatalogIds
           /\ LET norm == Lower(Trimmed(ReplyOf(last.calls[1])))
                  hits == {i \in 1..Len(CatalogOrder) : HasPart(CatalogOrder[i], norm)}
              IN  IF hits = {} THEN last.value = xml_structure
                  ELSE \E i \in hits : /\ last.value = CatalogOrder[i]
                                       /\ \A j \in hits : i <= j

C5_Witness ==
    /\ last.op = "choose"
    /\ WordCount(last.prompt) = Threshold
    /\ last.value = ai_rewrite
    /\ HasPart(multishot_examples, ReplyOf(last.calls[1]))

\* C6: for a prompt of more than 15 words, choose returns ai_rewrite and sends
\* no request.
C6_LongPromptShortCircuits ==
    (last.op = "choose" /\ WordCount(last.prompt) > Threshold)
        => /\ last.value = ai_rewrite
           /\ last.raised = "none"
           /\ last.calls = <<>>

C6_Witness ==
    /\ last.op = "choose"
    /\ WordCount(last.prompt) = Threshold + 1
    /\ last.value = ai_rewrite

\* C7: enhance with ai_rewrite sends exactly two requests, the critique
\* instruction around the prompt and then the rewrite instruction around the
\* prompt and the first reply; it returns the second reply without the
\* rewritten_prompt tags, trimmed, and stores the first reply without the
\* critique tags, trimmed, as the critique.
C7_CritiqueThenRewrite ==
    (EnhanceCalled /\ last.id = ai_rewrite)
        => /\ last.raised = "none"
           /\ Len(last.calls) = 2
           /\ LET c1 == last.calls[1]
                  c2 == last.calls[2]
              IN  /\ c1.prompt = CritiqueInstruction(last.prompt)
                  /\ HasPart(last.prompt, c1.prompt)
                  /\ c2.prompt = RewriteInstruction(last.prompt, c1.returned)
                  /\ HasPart(last.prompt, c2.prompt)
                  /\ HasPart(c1.returned, c2.prompt)
                  /\ c1.prompt # c2.prompt
                  /\ c1.model = c2.model
                  /\ IsTrimOf(last.value,
                              WithoutTag(WithoutTag(c2.returned, <<"<", "rewritten_prompt", ">">>),
                                         <<"<", "/", "rewritten_prompt", ">">>))
                  /\ IsTrimOf(critique,
                              WithoutTag(WithoutTag(c1.returned, <<"<", "critique", ">">>),
                                         <<"<", "/", "critique", ">">>))

C7_Witness ==
    /\ EnhanceCalled
    /\ last.id = ai_rewrite
    /\ last.calls[1].outcome.kind = "ok"
    /\ last.calls[2].outcome.kind = "ok"
    /\ HasPart(<<"<", "critique", ">">>, last.calls[1].returned)
    /\ critique # last.calls[1].returned
    /\ last.value # last.calls[2].returned

\* C8: listModels never raises; a failed listing gives the empty sequence, a
\* listing without models gives llama3:latest alone, any other listing gives
\* its model names.
C8_ListModelsNeverRaises ==
    last.op = "get_ollama_models"
        => /\ last.raised = "none"
           /\ last.listing.kind # "ok" => last.models = <<>>
           /\ (last.listing.kind = "ok" /\ last.listing.models = <<>>)
                  => last.models = << <<"llama3:latest">> >>
           /\ (last.listing.kind = "ok" /\ last.listing.models # <<>>)
                  => /\ Len(last.models) = Len(last.listing.models)
                     /\ \A i \in 1..Len(last.listing.models) :
                            \E j \in 1..Len(last.models) :
                                last.models[j] = ListedName(last.listing.models[i])

\* C9: generate never raises: a response text comes back trimmed, any failure
\* comes back as an error string, and the caller goes on with that string.
C9_GenerateNeverRaises ==
    last.op \in {"call_ollama", "choose", "rewrite_prompt_with_ai"}
        => /\ last.raised = "none"
           /\ \A i \in 1..Len(last.calls) :
                  /\ last.calls[i].raised = "none"
                  /\ last.calls[i].outcome.kind = "ok"
                         => IsTrimOf(last.calls[i].returned, last.calls[i].outcome.text)
                  /\ last.calls[i].outcome.kind # "ok"
                         => IsErrorText(last.calls[i].returned)
           /\ last.op = "call_ollama"
                  => Len(last.calls) = 1 /\ last.value = last.calls[1].returned
           /\ last.op = "rewrite_prompt_with_ai"
                  => Len(last.calls) = 2 /\ HasPart(last.calls[1].returned, last.calls[2].prompt)
           /\ (last.op = "choose" /\ last.calls # <<>>) => last.value \in CatalogIds

C9_Witness ==
    /\ last.op = "rewrite_prompt_with_ai"
    /\ last.calls[1].outcome.kind = "non_text"
    /\ last.calls[2].outcome.kind = "timeout"
    /\ IsErrorText(last.value)

\* C10: every step leaves the earlier history as a prefix of the later one, and
\* a call that raises leaves the history as it was.
C10_HistoryAppendOnly ==
    [][/\ IsPrefix(enhancement_history, enhancement_history')
       /\ last'.raised # "none" => enhancement_history' = enhancement_history]_vars

C10_Witness ==
    /\ EnhanceCalled
    /\ last.raised = "KeyError"
    /\ enhancement_history # <<>>

====
